---- MODULE Spec2Model ----
(***************************************************************************)
(* k-nucleotide: the k-mer counting and reporting engine and its job       *)
(* scheduler, as implemented twice in the repository:                      *)
(*   "knucleotide"  src/knucleotide.go       (typed seqBits/seq32/seq64)   *)
(*   "orig"         src/unnamed/part_000     (the program it is based on)  *)
(*                                                                         *)
(* A packed key (uint32 / uint64) is a tuple of 16-bit limbs, most         *)
(* significant first, and every shift, mask and or is computed on the      *)
(* limbs, so the arithmetic is exact at the code's widths.  A Go string or *)
(* []byte is a tuple of byte values.                                       *)
(***************************************************************************)
EXTENDS Integers, Sequences, FiniteSets, TLC

VARIABLES
    impl,      \* which of the two programs runs
    seed,      \* the letters the input sequence repeats
    dna,       \* the encoded sequence: [bits: codes, cap: capacity of the slice]
    reports,   \* per job: what its closure returns on dna (a pure function of dna)
    ncpu,      \* runtime.NumCPU()
    queue,     \* the buffered channel of job indices / closures
    closed,    \* whether the queue has been closed
    mainpc,    \* where main is
    mi,        \* main's loop variable i
    wpc,       \* each worker goroutine's position
    wjob,      \* the job index a worker holds
    slots,     \* jobs[k].result: a buffered channel of capacity 1
    output,    \* the blocks printed so far
    hist,      \* per job: how often it was enqueued, dequeued, written, read
    rpc,       \* report driver: "idle", "counting" or "returned"
    call,      \* report driver: the call made
    loop,      \* report driver: the counting loop's index, key and table
    ret        \* report driver: what the call returned

vars == <<impl, seed, dna, reports, ncpu, queue, closed, mainpc, mi, wpc, wjob, slots,
          output, hist, rpc, call, loop, ret>>

schedVars == <<reports, ncpu, queue, closed, mainpc, mi, wpc, wjob, slots, output, hist>>
reportVars == <<rpc, call, loop, ret>>

(***************************************************************************)
(* Bounds of the model.                                                    *)
(***************************************************************************)
MaxSeed == 1    \* every word of 1..MaxSeed letters is an input pattern
MaxShort == 4   \* every input length 0..MaxShort is tried
MaxCPU == 2     \* worker pool sizes 1..MaxCPU

(***************************************************************************)
(* Bytes.                                                                  *)
(***************************************************************************)
chA == 65
chC == 67
chG == 71
chT == 84

Alphabet == {chA, chC, chG, chT}
BadBytes == {78, 97}     \* 'N', 'a'

Max(a, b) == IF a >= b THEN a ELSE b
Min(a, b) == IF a <= b THEN a ELSE b

RECURSIVE Pow2(_)
Pow2(n) == IF n = 0 THEN 1 ELSE 2 * Pow2(n - 1)

(***************************************************************************)
(* Unsigned integers of the code's widths.  A uint32 is 2 limbs of 16      *)
(* bits, a uint64 is 4, most significant limb first.                       *)
(***************************************************************************)
Limb == 256 * 256
Limbs32 == 2
Limbs64 == 4

\* a | b on limbs.
RECURSIVE OrLimb(_, _)
OrLimb(a, b) ==
    IF a = 0 THEN b
    ELSE IF b = 0 THEN a
    ELSE (IF (a % 2) + (b % 2) > 0 THEN 1 ELSE 0) + 2 * OrLimb(a \div 2, b \div 2)

\* num << 2 at num's width: every limb's low 14 bits move up and take in
\* the top 2 bits of the limb below; the top two bits fall off.
Shl2(num) ==
    IF Len(num) = Limbs32
    THEN <<((num[1] * 4) % Limb) + ((num[2] * 4) \div Limb),
           (num[2] * 4) % Limb>>
    ELSE <<((num[1] * 4) % Limb) + ((num[2] * 4) \div Limb),
           ((num[2] * 4) % Limb) + ((num[3] * 4) \div Limb),
           ((num[3] * 4) % Limb) + ((num[4] * 4) \div Limb),
           (num[4] * 4) % Limb>>

\* num | T(char) for a byte char.
OrByte(num, char) ==
    IF Len(num) = Limbs32
    THEN <<num[1], OrLimb(num[2], char)>>
    ELSE <<num[1], num[2], num[3], OrLimb(num[4], char)>>

\* The limb at place i of T(1)<<uint(2*length) - 1 at w limbs: a shift by the
\* width or more gives 0, and 0 - 1 wraps to all ones.
MaskLimb(length, w, i) ==
    IF 2 * length >= 16 * w THEN Limb - 1
    ELSE IF 2 * length >= 16 * (w - i) + 16 THEN Limb - 1
    ELSE IF 2 * length <= 16 * (w - i) THEN 0
    ELSE Pow2(2 * length - 16 * (w - i)) - 1

\* A variant that keeps every bit: the key is never cut to length letters.
MaskForgotten(length, w) ==
    IF w = Limbs32 THEN <<Limb - 1, Limb - 1>>
    ELSE <<Limb - 1, Limb - 1, Limb - 1, Limb - 1>>
Mask(length, w) ==
    IF w = Limbs32
    THEN <<MaskLimb(length, w, 1), MaskLimb(length, w, 2)>>
    ELSE <<MaskLimb(length, w, 1), MaskLimb(length, w, 2),
           MaskLimb(length, w, 3), MaskLimb(length, w, 4)>>

\* num & mask, for a mask whose every limb is 2^k - 1.
AndMask(num, mask) ==
    IF Len(num) = Limbs32
    THEN <<num[1] % (mask[1] + 1), num[2] % (mask[2] + 1)>>
    ELSE <<num[1] % (mask[1] + 1), num[2] % (mask[2] + 1),
           num[3] % (mask[3] + 1), num[4] % (mask[4] + 1)>>

(***************************************************************************)
(* Packing:  for _, char := range seq { num = num<<2 | T(char) }.          *)
(* Every pass moves all of num up by two bits and ors the next byte in at  *)
(* the bottom, so when the loop ends byte j of n lies 2*(n-j) bits up, and *)
(* what it pushed past the top is lost.  The result is computed place by   *)
(* place: the two bits at place q are the or of the bits the bytes         *)
(* n-q .. n-q+3 leave there (a byte above 3 reaches up to three places     *)
(* beyond its own).                                                        *)
(***************************************************************************)
\* The two bits byte j of seq has m places up (none when seq has no byte j).
ByteBits(seq, j, m) ==
    IF j >= 1 /\ j <= Len(seq) THEN (seq[j] \div Pow2(2 * m)) % 4 ELSE 0

Or2(a, b) ==
    (IF (a % 2) + (b % 2) > 0 THEN 1 ELSE 0)
    + 2 * (IF (a \div 2) + (b \div 2) > 0 THEN 1 ELSE 0)

PackBits(seq, q) ==
    Or2(Or2(ByteBits(seq, Len(seq) - q, 0), ByteBits(seq, Len(seq) - q + 1, 1)),
        Or2(ByteBits(seq, Len(seq) - q + 2, 2), ByteBits(seq, Len(seq) - q + 3, 3)))

\* Limb l of the packed key, l = 0 being the lowest.
PackLimb(seq, l) ==
    PackBits(seq, 8 * l)
    + 4 * PackBits(seq, 8 * l + 1)
    + 16 * PackBits(seq, 8 * l + 2)
    + 64 * PackBits(seq, 8 * l + 3)
    + 256 * PackBits(seq, 8 * l + 4)
    + 1024 * PackBits(seq, 8 * l + 5)
    + 4096 * PackBits(seq, 8 * l + 6)
    + 16384 * PackBits(seq, 8 * l + 7)

PackKey(seq, w) ==
    IF w = Limbs32
    THEN <<PackLimb(seq, 1), PackLimb(seq, 0)>>
    ELSE <<PackLimb(seq, 3), PackLimb(seq, 2), PackLimb(seq, 1), PackLimb(seq, 0)>>

seq32(seq) == PackKey(seq, Limbs32)
seq64(seq) == PackKey(seq, Limbs64)
compress32(sequence) == PackKey(sequence, Limbs32)
compress64(sequence) == PackKey(sequence, Limbs64)

(***************************************************************************)
(* The codec.                                                              *)
(***************************************************************************)
\* seq[i] = seq[i] >> 1 & 3, for every byte, whatever it is.
toBits(seq) == [i \in 1..Len(seq) |-> (seq[i] \div 2) % 4]

\* strings.NewReplacer("A", 0, "C", 1, "G", 3, "T", 2): other bytes stay.
toNum(seq) ==
    [i \in 1..Len(seq) |->
        CASE seq[i] = chA -> 0
          [] seq[i] = chC -> 1
          [] seq[i] = chG -> 3
          [] seq[i] = chT -> 2
          [] OTHER -> seq[i]]

\* The string "ACTG" indexed by a code, and toChar's replacements.
ACTG == <<chA, chC, chT, chG>>

\* (num >> 2*i) & 3
LowDigit(num, i) ==
    IF i >= 8 * Len(num) THEN 0
    ELSE (num[Len(num) - (i \div 8)] \div Pow2(2 * (i % 8))) % 4

\* seq32.seqString: sequence[length-i-1] = "ACTG"[num&3]; num = num >> 2.
seqString(num, length) == [q \in 1..length |-> ACTG[LowDigit(num, length - q) + 1]]

\* decompress32, then toChar.Replace.
decompress32(num, length) == [q \in 1..length |-> LowDigit(num, length - q)]
toChar(seq) == [i \in 1..Len(seq) |-> IF seq[i] \in 0..3 THEN ACTG[seq[i] + 1] ELSE seq[i]]

(***************************************************************************)
(* Slices of the encoded sequence.  dna[0:hi] is legal up to the slice's   *)
(* capacity; the bytes between its length and its capacity are the zeroes  *)
(* make() put there.                                                       *)
(***************************************************************************)
LineBytes == 61

\* A variant that bounds the slice by len(dna) instead of cap(dna).
SliceOKLen(d, hi) == 0 <= hi /\ hi <= Len(d.bits)
SliceOK(d, hi) == 0 <= hi /\ hi <= d.cap

Slice(d, hi) == [i \in 1..hi |-> IF i <= Len(d.bits) THEN d.bits[i] ELSE 0]

(***************************************************************************)
(* The counter.  A count table is a function from keys to counts; iters    *)
(* counts the executions of the loop body.                                 *)
(***************************************************************************)
Panic(msg, iters) == [kind |-> "panic", msg |-> msg, iters |-> iters]

Bump(counts, key) ==
    IF key \in DOMAIN counts
    THEN [counts EXCEPT ![key] = @ + 1]
    ELSE [k \in DOMAIN counts \cup {key} |-> IF k = key THEN 1 ELSE counts[k]]

EmptyTable == [k \in {} |-> 0]

\* One execution of the loop body:
\*   key = key<<2&mask | T(dna[index]); counts[key]++ (or = 1)
CountStep(prev, char, mask) ==
    [key |-> OrByte(AndMask(Shl2(prev.key), mask), char),
     counts |-> Bump(prev.counts, OrByte(AndMask(Shl2(prev.key), mask), char)),
     iters |-> prev.iters + 1]

\* The loop  for index := length - 1; index < len(dna); index++ { ... }
\* when index has the given value: the key, the table, the iterations run.
RECURSIVE CountLoop(_, _, _, _)
CountLoop(d, length, w, index) ==
    IF index <= length - 1
    THEN [key |-> PackKey(Slice(d, length - 1), w), counts |-> EmptyTable, iters |-> 0]
    ELSE CountStep(CountLoop(d, length, w, index - 1), d.bits[index], Mask(length, w))

CountKeys(d, length, w) ==
    IF ~SliceOK(d, length - 1)
    THEN Panic("slice bounds out of range", 0)
    ELSE LET end == CountLoop(d, length, w, Max(length - 1, Len(d.bits)))
         IN  [kind |-> "counts", counts |-> end.counts, iters |-> end.iters,
              limbs |-> w]

_count32(d, length) == CountKeys(d, length, Limbs32)
_count64(d, length) == CountKeys(d, length, Limbs64)
count32(d, length) == CountKeys(d, length, Limbs32)
count64(d, length) == CountKeys(d, length, Limbs64)

\* countSequences: the 32-bit table up to 16 symbols, the 64-bit one beyond.
countSequences(d, length) ==
    IF length <= 16 THEN _count32(d, length) ELSE _count64(d, length)

\* The key width each program counts with: knucleotide.go always asks
\* countSequences; part_000 counts a frequency report with count32 whatever
\* the length, and a lookup with count32 up to 16 letters, count64 beyond.
CountLimbs(im, op, length) ==
    IF im = "orig" /\ op = "frequencyReport" THEN Limbs32
    ELSE IF length <= 16 THEN Limbs32 ELSE Limbs64

(***************************************************************************)
(* Ranging over a Go map visits the keys in an unspecified order.  The     *)
(* model lets the visit start anywhere in the ascending order of the keys  *)
(* and run in either direction: iter = [rot, rev].                         *)
(***************************************************************************)
LexLess(x, y) ==
    \E i \in 1..Len(x) : x[i] < y[i] /\ \A j \in 1..(i - 1) : x[j] = y[j]

RECURSIVE Ascending(_)
Ascending(S) ==
    IF S = {} THEN <<>>
    ELSE LET m == CHOOSE x \in S : \A y \in S \ {x} : LexLess(x, y)
         IN  <<m>> \o Ascending(S \ {m})

MapRange(counts, iter) ==
    LET base == Ascending(DOMAIN counts)
        n == Len(base)
        rotd == [i \in 1..n |-> base[((i - 1 + iter.rot) % n) + 1]]
    IN  IF iter.rev THEN [i \in 1..n |-> rotd[n + 1 - i]] ELSE rotd

MaxRot == 3
Iters == [rot : 0..MaxRot, rev : BOOLEAN]

(***************************************************************************)
(* Sorting the rows.                                                       *)
(***************************************************************************)
\* Go's s > t on strings: bytewise, a proper prefix being the smaller.
StrGreater(s, t) ==
    \/ \E i \in 1..Min(Len(s), Len(t)) :
          s[i] > t[i] /\ \A j \in 1..(i - 1) : s[j] = t[j]
    \/ Len(s) > Len(t) /\ \A j \in 1..Len(t) : s[j] = t[j]

\* A variant that breaks ties by ascending subsequence.
LessAscendingSeq(a, b) ==
    IF a.count = b.count THEN StrGreater(b.seq, a.seq) ELSE a.count > b.count
\* seqCountsDesc.Less / sequenceSlice.Less: descending by count, then by seq.
Less(a, b) ==
    IF a.count = b.count THEN StrGreater(a.seq, b.seq) ELSE a.count > b.count

\* sort.Sort: the rows rearranged so that Less never holds backwards.
RECURSIVE Insert(_, _)
Insert(x, sorted) ==
    IF sorted = <<>> THEN <<x>>
    ELSE IF Less(x, Head(sorted)) THEN <<x>> \o sorted
    ELSE <<Head(sorted)>> \o Insert(x, Tail(sorted))

RECURSIVE Sort(_)
Sort(list) == IF list = <<>> THEN <<>> ELSE Insert(Head(list), Sort(Tail(list)))

\* seqCounts32.allCounts: one row per key, in the map's order.
allCounts(counts, length, iter) ==
    LET keys == MapRange(counts, iter)
    IN  [i \in 1..Len(keys) |->
            [seq |-> seqString(keys[i], length), count |-> counts[keys[i]]]]

\* sortedCounts: seqCounts32 sorts its rows; seqCounts64 is not implemented.
sortedCounts(c, length, iter) ==
    IF c.limbs = Limbs32
    THEN [kind |-> "rows", rows |-> Sort(allCounts(c.counts, length, iter))]
    ELSE Panic("not implemented", c.iters)

(***************************************************************************)
(* The reports of knucleotide.go.  A report is the text's content: the     *)
(* rows (or the count and the literal), the divisor of the percentages,    *)
(* and the number of loop iterations the counter ran.                      *)
(***************************************************************************)
FreqBlock(rows, total, iters) ==
    [kind |-> "frequency", rows |-> rows, total |-> total, iters |-> iters]
SeqBlock(count, sequence, iters) ==
    [kind |-> "sequence", count |-> count, literal |-> sequence, iters |-> iters]

\* frequencyReport, from the count table on.
frequencyReportFrom(counts, d, length, iter) ==
    IF counts.kind = "panic" THEN counts
    ELSE LET sequences == sortedCounts(counts, length, iter)
         IN  IF sequences.kind = "panic" THEN sequences
             ELSE FreqBlock(sequences.rows, Len(d.bits) - length + 1, counts.iters)

frequencyReport(d, length, iter) ==
    frequencyReportFrom(countSequences(d, length), d, length, iter)

\* seqCounts32.countOf / seqCounts64.countOf
countOf(c, seq) ==
    LET key == IF c.limbs = Limbs32 THEN seq32(toBits(seq)) ELSE seq64(toBits(seq))
    IN  IF key \in DOMAIN c.counts THEN c.counts[key] ELSE 0

\* sequenceReport, from the count table on.
sequenceReportFrom(counts, sequence) ==
    IF counts.kind = "panic" THEN counts
    ELSE SeqBlock(countOf(counts, sequence), sequence, counts.iters)

sequenceReport(d, sequence) ==
    sequenceReportFrom(countSequences(d, Len(sequence)), sequence)

(***************************************************************************)
(* The reports of part_000.                                                *)
(***************************************************************************)
frequencyReportOrigFrom(counts, d, length, iter) ==
    IF counts.kind = "panic" THEN counts
    ELSE LET keys == MapRange(counts.counts, iter)
             sortedSeqs ==
                 Sort([i \in 1..Len(keys) |->
                         [seq |-> toChar(decompress32(keys[i], length)),
                          count |-> counts.counts[keys[i]]]])
         IN  FreqBlock(sortedSeqs, Len(d.bits) - length + 1, counts.iters)

frequencyReportOrig(d, length, iter) ==
    frequencyReportOrigFrom(count32(d, length), d, length, iter)

sequenceReportOrigFrom(counts, sequence) ==
    IF counts.kind = "panic" THEN counts
    ELSE LET key == IF Len(sequence) <= 16
                    THEN compress32(toNum(sequence))
                    ELSE compress64(toNum(sequence))
             sequenceCount ==
                 IF key \in DOMAIN counts.counts THEN counts.counts[key] ELSE 0
         IN  SeqBlock(sequenceCount, sequence, counts.iters)

sequenceReportOrig(d, sequence) ==
    sequenceReportOrigFrom(IF Len(sequence) <= 16
                           THEN count32(d, Len(sequence))
                           ELSE count64(d, Len(sequence)),
                           sequence)

FrequencyReportFrom(im, counts, d, length, iter) ==
    IF im = "knucleotide" THEN frequencyReportFrom(counts, d, length, iter)
    ELSE frequencyReportOrigFrom(counts, d, length, iter)

SequenceReportFrom(im, counts, sequence) ==
    IF im = "knucleotide" THEN sequenceReportFrom(counts, sequence)
    ELSE sequenceReportOrigFrom(counts, sequence)

FrequencyReport(im, d, length, iter) ==
    IF im = "knucleotide" THEN frequencyReport(d, length, iter)
    ELSE frequencyReportOrig(d, length, iter)

SequenceReport(im, d, sequence) ==
    IF im = "knucleotide" THEN sequenceReport(d, sequence)
    ELSE sequenceReportOrig(d, sequence)

(***************************************************************************)
(* The inputs.  readSequence returns the letters after the header in a     *)
(* slice made with capacity lineCount*61; toBits encodes them in place.    *)
(* The inputs tried are the periodic repetitions of a seed, cut at a       *)
(* length around the widths the code treats differently.                   *)
(***************************************************************************)
Literal18 == <<chG, chG, chT, chA, chT, chT, chT, chT, chA, chA, chT, chT,
               chT, chA, chT, chA, chG, chT>>

Words(n) == [1..n -> Alphabet]

Seeds ==
    (UNION {Words(n) : n \in 1..MaxSeed})
    \cup {<<chA, chC>>, <<chG, chG, chT>>, <<chA, chC, chG, chT>>, Literal18}

\* The header is on the first line read, or further down.
LineCounts == {1, 2}

DnaLens == (0..MaxShort) \cup {16, 17, 19, 34}

Periodic(s, n) == [i \in 1..n |-> s[((i - 1) % Len(s)) + 1]]

\* data = make(seqChars, 0, lineCount*61), appended to.
readSequence(chars, lineCount) ==
    [bits |-> chars, cap |-> Max(lineCount * LineBytes, Len(chars))]

Encoded(chars, lineCount) ==
    LET data == readSequence(chars, lineCount)
    IN  [data EXCEPT !.bits = toBits(data.bits)]

SchedIdle ==
    /\ reports = <<>>
    /\ ncpu = 0
    /\ queue = <<>>
    /\ closed = FALSE
    /\ mainpc = "none"
    /\ mi = 0
    /\ wpc = <<>>
    /\ wjob = <<>>
    /\ slots = <<>>
    /\ output = <<>>
    /\ hist = <<>>

ReportIdle ==
    /\ rpc = "none"
    /\ call = [op |-> "none", length |-> 0, literal |-> <<>>]
    /\ loop = [index |-> 0, key |-> <<>>, mask |-> <<>>, counts |-> <<>>,
               iters |-> 0, limbs |-> 0]
    /\ ret = [kind |-> "none"]

(***************************************************************************)
(* The report driver: one call of frequencyReport or sequenceReport on an  *)
(* input, with any length or literal of the families below.                *)
(***************************************************************************)
FreqLens == {0, 1, 2, 3, 16, 17, 32, 33}
LitLens == {0, 1, 2, 3, 15, 16, 17, 18, 31, 32, 33}

OtherLetter(b) ==
    CASE b = chA -> chC
      [] b = chC -> chG
      [] b = chG -> chT
      [] OTHER -> chA

ReplaceAt(s, i, b) == [j \in 1..Len(s) |-> IF j = i THEN b ELSE s[j]]

\* The literals looked up: the seed repeated, as it is, with its last letter
\* changed, or with a byte outside the alphabet in it; and every short word.
Literals(s) ==
    LET bases == {Periodic(s, n) : n \in LitLens}
    IN  bases
        \cup {ReplaceAt(b, Len(b), OtherLetter(b[Len(b)])) : b \in bases \ {<<>>}}
        \cup {ReplaceAt(b, Len(b), x) : b \in bases \ {<<>>}, x \in BadBytes}
        \cup {ReplaceAt(b, 1, 78) : b \in bases \ {<<>>}}
        \cup UNION {Words(n) : n \in 1..MaxSeed}

LiteralsOfLen(s, length) == {l \in Literals(s) : Len(l) = length}

NoLoop == [index |-> 0, key |-> <<>>, mask |-> <<>>, counts |-> EmptyTable,
           iters |-> 0, limbs |-> 0]

ReportInit ==
    /\ impl \in {"knucleotide", "orig"}
    /\ seed \in Seeds
    /\ \E n \in DnaLens, lineCount \in LineCounts :
          dna = Encoded(Periodic(seed, n), lineCount)
    /\ rpc = "idle"
    /\ call = [op |-> "none", length |-> 0, literal |-> <<>>]
    /\ loop = NoLoop
    /\ ret = [kind |-> "none"]
    /\ SchedIdle

\* The call enters the counter: the slice dna[0:length-1] is taken and packed
\* into the first key, or the slice expression panics.
BeginCount(op, length) ==
    /\ call' = [op |-> op, length |-> length, literal |-> <<>>]
    /\ IF SliceOK(dna, length - 1)
       THEN /\ loop' = [index |-> length - 1,
                        key |-> PackKey(Slice(dna, length - 1),
                                        CountLimbs(impl, op, length)),
                        mask |-> Mask(length, CountLimbs(impl, op, length)),
                        counts |-> EmptyTable,
                        iters |-> 0,
                        limbs |-> CountLimbs(impl, op, length)]
            /\ rpc' = "counting"
            /\ ret' = ret
       ELSE /\ loop' = loop
            /\ rpc' = "returned"
            /\ ret' = Panic("slice bounds out of range", 0)

FrequencyReportCall ==
    /\ rpc = "idle"
    /\ \E length \in FreqLens : BeginCount("frequencyReport", length)
    /\ UNCHANGED <<impl, seed, dna, schedVars>>

\* Counting reads only len(sequence); the letters are first read by the
\* lookup, where the model chooses them.
SequenceReportCall ==
    /\ rpc = "idle"
    /\ \E length \in LitLens : BeginCount("sequenceReport", length)
    /\ UNCHANGED <<impl, seed, dna, schedVars>>

\* One iteration of the counting loop.
CountIteration ==
    /\ rpc = "counting"
    /\ loop.index < Len(dna.bits)
    /\ LET next == CountStep(loop, dna.bits[loop.index + 1], loop.mask)
       IN  loop' = [loop EXCEPT !.index = @ + 1, !.key = next.key,
                                !.counts = next.counts, !.iters = next.iters]
    /\ UNCHANGED <<impl, seed, dna, schedVars, rpc, call, ret>>

Counted == [kind |-> "counts", counts |-> loop.counts, iters |-> loop.iters,
            limbs |-> loop.limbs]

\* The loop is over: the rows are collected, sorted and written.
FrequencyReportReturn ==
    /\ rpc = "counting"
    /\ call.op = "frequencyReport"
    /\ loop.index >= Len(dna.bits)
    /\ \E iter \in Iters :
          ret' = FrequencyReportFrom(impl, Counted, dna, call.length, iter)
    /\ rpc' = "returned"
    /\ UNCHANGED <<impl, seed, dna, schedVars, call, loop>>

\* The loop is over: the literal is packed and looked up.
SequenceReportReturn ==
    /\ rpc = "counting"
    /\ call.op = "sequenceReport"
    /\ loop.index >= Len(dna.bits)
    /\ \E sequence \in LiteralsOfLen(seed, call.length) :
          /\ call' = [call EXCEPT !.literal = sequence]
          /\ ret' = SequenceReportFrom(impl, Counted, sequence)
    /\ rpc' = "returned"
    /\ UNCHANGED <<impl, seed, dna, schedVars, loop>>

ReportNext ==
    \/ FrequencyReportCall
    \/ SequenceReportCall
    \/ CountIteration
    \/ FrequencyReportReturn
    \/ SequenceReportReturn

ReportSpec == ReportInit /\ [][ReportNext]_vars

(***************************************************************************)
(* Properties of the reports.                                              *)
(***************************************************************************)
N == Len(dna.bits)
Letters == Periodic(seed, N)
Windows(length) == Max(0, N - length + 1)
Returned(op) == rpc = "returned" /\ call.op = op
Supported(length) == 1 <= length /\ length <= 32
ValidLiteral(sequence) == \A i \in 1..Len(sequence) : sequence[i] \in Alphabet

\* The number of positions of s at which lit occurs.
Occurrences(s, lit) ==
    Cardinality({i \in 1..(Len(s) - Len(lit) + 1) :
                    \A j \in 1..Len(lit) : s[i + j - 1] = lit[j]})

RECURSIVE SumCounts(_)
SumCounts(rows) ==
    IF rows = <<>> THEN 0 ELSE Head(rows).count + SumCounts(Tail(rows))

\* C2 as stated: for every length from 1 to 32, frequencyReport returns a
\* table whose counts add up to max(0, N - L + 1), after exactly that many
\* increments.
C2_FrequencyCountsSum ==
    (Returned("frequencyReport") /\ Supported(call.length)) =>
        /\ ret.kind = "frequency"
        /\ SumCounts(ret.rows) = Windows(call.length)
        /\ ret.iters = Windows(call.length)

\* knucleotide.go: frequencyReport for a length above 16 panics in
\* seqCounts64.sortedCounts, after the counting.
C2_Witness ==
    /\ impl = "knucleotide"
    /\ Returned("frequencyReport")
    /\ call.length = 17
    /\ N >= 17
    /\ ret = Panic("not implemented", Windows(17))

\* C3: for a literal of 1 to 32 letters over A, C, G, T, sequenceReport
\* returns the number of positions at which the literal occurs in the
\* sequence, on the 32-bit path (up to 16 letters) and on the 64-bit path
\* (17 to 32 letters) alike; a literal that does not occur gives 0.
C3_LookupCountsOccurrences ==
    (Returned("sequenceReport") /\ Supported(call.length)
        /\ ValidLiteral(call.literal)) =>
        /\ ret.kind = "sequence"
        /\ ret.literal = call.literal
        /\ ret.count = Occurrences(Letters, call.literal)

\* A literal of 17 letters found more than once, through 64-bit keys.
C3_Witness ==
    /\ Returned("sequenceReport")
    /\ call.length = 17
    /\ loop.limbs = Limbs64
    /\ ret.kind = "sequence"
    /\ ret.count >= 2
    /\ ret.count = Occurrences(Letters, call.literal)

\* A < C < G < T, letter by letter; of a word and its proper prefix the
\* longer one is the greater.
LetterRank(b) ==
    CASE b = chA -> 0
      [] b = chC -> 1
      [] b = chG -> 2
      [] b = chT -> 3

LexGreater(a, b) ==
    \E i \in 1..Len(a) :
        /\ \A j \in 1..(i - 1) : j <= Len(b) /\ a[j] = b[j]
        /\ (i > Len(b) \/ LetterRank(a[i]) > LetterRank(b[i]))

RowBefore(a, b) ==
    \/ a.count > b.count
    \/ a.count = b.count /\ LexGreater(a.seq, b.seq)

\* C4: the rows of a frequency report are strictly ordered, by descending
\* count and for equal counts by descending lexicographic order of the
\* subsequence (A < C < G < T), and are the same whatever the order in which
\* the map of counts is iterated.
C4_RowsStrictlyOrdered ==
    (Returned("frequencyReport") /\ ret.kind = "frequency") =>
        /\ \A i, j \in 1..Len(ret.rows) : i < j => RowBefore(ret.rows[i], ret.rows[j])
        /\ \A iter \in Iters :
              ret = FrequencyReportFrom(impl, Counted, dna, call.length, iter)

\* "ACGT" with length 1: four rows of count 1, in the order T, G, C, A.
C4_Witness ==
    /\ Returned("frequencyReport")
    /\ Letters = <<chA, chC, chG, chT>>
    /\ call.length = 1
    /\ ret.kind = "frequency"
    /\ ret.rows = << [seq |-> <<chT>>, count |-> 1], [seq |-> <<chG>>, count |-> 1],
                     [seq |-> <<chC>>, count |-> 1], [seq |-> <<chA>>, count |-> 1] >>

\* C5 as stated: sequenceReport with a literal holding a byte outside
\* A, C, G, T never returns a count.
C5_InvalidSymbolRejected ==
    (Returned("sequenceReport") /\ ~ValidLiteral(call.literal)) =>
        ret.kind # "sequence"

\* A literal with a byte outside the alphabet is counted as if the byte
\* were a letter.
C5_Witness ==
    /\ Returned("sequenceReport")
    /\ ~ValidLiteral(call.literal)
    /\ ret.kind = "sequence"
    /\ ret.count > 0

\* C6 as stated: a length of 0 or above 32 ends in an error before any
\* counting step, and no report is produced.
C6_UnsupportedLengthRejected ==
    (rpc # "idle" /\ ~Supported(call.length)) =>
        /\ loop.iters = 0
        /\ rpc = "returned" => (ret.kind = "panic" /\ ret.iters = 0)

\* A length of 33 is counted and reported.
C6_Witness ==
    /\ rpc = "returned"
    /\ call.length = 33
    /\ ret.kind \in {"sequence", "frequency"}
    /\ ret.iters > 0

\* C7: on a sequence read by the program (its slice has a capacity of at
\* least 61) that is shorter than the length L, 1 <= L <= 32, even by more
\* than one letter or empty, the slice expression does not panic, the loop
\* body is never executed, the table stays empty, and sequenceReport
\* returns the count 0.
C7_ShortSequenceEmptyTable ==
    (rpc # "idle" /\ Supported(call.length) /\ N < call.length) =>
        /\ loop.iters = 0
        /\ loop.counts = EmptyTable
        /\ loop.index = call.length - 1
        /\ rpc = "returned" =>
              /\ ret.iters = 0
              /\ ret.kind = "panic" => ret.msg # "slice bounds out of range"
              /\ call.op = "sequenceReport" => (ret.kind = "sequence" /\ ret.count = 0)

\* The sequence is shorter than the literal by more than one letter.
C7_Witness ==
    /\ Returned("sequenceReport")
    /\ Supported(call.length)
    /\ N + 1 < call.length
    /\ ret.kind = "sequence"
    /\ ret.count = 0

(***************************************************************************)
(* The scheduler: main, the worker goroutines, the queue and the result    *)
(* slots.  Jobs are numbered from 0 as in the code.                        *)
(***************************************************************************)
FreqJob(length) == [op |-> "frequencyReport", length |-> length, literal |-> <<>>]
SeqJob(sequence) ==
    [op |-> "sequenceReport", length |-> Len(sequence), literal |-> sequence]

jobs ==
    << FreqJob(1),
       FreqJob(2),
       SeqJob(SubSeq(Literal18, 1, 3)),
       SeqJob(SubSeq(Literal18, 1, 4)),
       SeqJob(SubSeq(Literal18, 1, 6)),
       SeqJob(SubSeq(Literal18, 1, 12)),
       SeqJob(Literal18) >>

NumJobs == Len(jobs)
JobIds == 0..(NumJobs - 1)
Workers == 1..MaxCPU

\* A variant with room for one job less.
QueueCapShort == NumJobs - 1
\* make(chan func(), len(jobs)) / make(chan int, len(jobs))
QueueCap == NumJobs
\* make(chan string, 1)
SlotCap == 1

\* What job k's closure returns: jobs[k].job(dna).
JobReport(im, d, k, iter) ==
    IF jobs[k + 1].op = "frequencyReport"
    THEN FrequencyReport(im, d, jobs[k + 1].length, iter)
    ELSE SequenceReport(im, d, jobs[k + 1].literal)

\* The inputs the scheduler is run on.
SchedLens == {0, 4}

\* Only frequencyReport ranges over a map; two orders stand for "unspecified".
JobIters(k) ==
    IF jobs[k + 1].op = "frequencyReport"
    THEN {it \in Iters : it.rot = 0}
    ELSE {it \in Iters : it.rot = 0 /\ ~it.rev}

Init ==
    /\ impl \in {"knucleotide", "orig"}
    /\ seed = Literal18
    /\ \E n \in SchedLens : dna = Encoded(Periodic(seed, n), 1)
    /\ reports = [k \in JobIds |-> {JobReport(impl, dna, k, iter) : iter \in JobIters(k)}]
    /\ ncpu \in 1..MaxCPU
    /\ queue = <<>>
    /\ closed = FALSE
    /\ mainpc = "enqueue"
    /\ mi = 0
    /\ wpc = [w \in 1..ncpu |-> "recv"]
    /\ wjob = [w \in 1..ncpu |-> 0]
    /\ slots = [k \in JobIds |-> <<>>]
    /\ output = <<>>
    /\ hist = [k \in JobIds |-> [enq |-> 0, deq |-> 0, wr |-> 0, rd |-> 0]]
    /\ ReportIdle

Alive == mainpc \notin {"exited", "crashed"}

\* A variant in which every closure sees the index of the last iteration.
EnqueueIndexShared(i) == NumJobs - 1
\* longest job first, shortest job last:  n := len(jobs) - 1 - i
EnqueueIndex(i) == NumJobs - 1 - i

\* for i := range jobs { queue <- ... }: one send.  After the last one
\* part_000 closes the queue; knucleotide.go goes on to wait for the results.
Enqueue ==
    /\ mainpc = "enqueue"
    /\ Len(queue) < QueueCap
    /\ queue' = Append(queue, EnqueueIndex(mi))
    /\ hist' = [hist EXCEPT ![EnqueueIndex(mi)].enq = @ + 1]
    /\ IF mi + 1 < NumJobs
       THEN mi' = mi + 1 /\ mainpc' = mainpc
       ELSE mi' = 0 /\ mainpc' = (IF impl = "orig" THEN "close" ELSE "collect")
    /\ UNCHANGED <<impl, seed, dna, reports, ncpu, closed, wpc, wjob, slots, output, reportVars>>

\* A variant that goes on without closing the queue.
CloseForgotten ==
    /\ mainpc = "close"
    /\ mainpc' = (IF impl = "orig" THEN "collect" ELSE "exit")
    /\ UNCHANGED <<impl, seed, dna, reports, ncpu, queue, closed, mi, wpc, wjob, slots, output,
                   hist, reportVars>>
\* close(command) at the end of scheduler / close(queue) at the end of main.
Close ==
    /\ mainpc = "close"
    /\ closed' = TRUE
    /\ mainpc' = (IF impl = "orig" THEN "collect" ELSE "exit")
    /\ UNCHANGED <<impl, seed, dna, reports, ncpu, queue, mi, wpc, wjob, slots, output, hist,
                   reportVars>>

\* A variant that receives from whichever slot is filled.
CollectAnyFilled ==
    /\ mainpc = "collect"
    /\ \E k \in JobIds :
          /\ slots[k] # <<>>
          /\ output' = Append(output, Head(slots[k]))
          /\ slots' = [slots EXCEPT ![k] = Tail(@)]
          /\ hist' = [hist EXCEPT ![k].rd = @ + 1]
    /\ IF mi + 1 < NumJobs
       THEN mi' = mi + 1 /\ mainpc' = mainpc
       ELSE mi' = 0 /\ mainpc' = (IF impl = "orig" THEN "exit" ELSE "close")
    /\ UNCHANGED <<impl, seed, dna, reports, ncpu, queue, closed, wpc, wjob, reportVars>>
\* for i := range jobs { fmt.Println(<-jobs[i].result) }: one receive.
Collect ==
    /\ mainpc = "collect"
    /\ slots[mi] # <<>>
    /\ output' = Append(output, Head(slots[mi]))
    /\ slots' = [slots EXCEPT ![mi] = Tail(@)]
    /\ hist' = [hist EXCEPT ![mi].rd = @ + 1]
    /\ IF mi + 1 < NumJobs
       THEN mi' = mi + 1 /\ mainpc' = mainpc
       ELSE mi' = 0 /\ mainpc' = (IF impl = "orig" THEN "exit" ELSE "close")
    /\ UNCHANGED <<impl, seed, dna, reports, ncpu, queue, closed, wpc, wjob, reportVars>>

\* main returns: the program exits, whatever the other goroutines are doing.
Exit ==
    /\ mainpc = "exit"
    /\ mainpc' = "exited"
    /\ UNCHANGED <<impl, seed, dna, reports, ncpu, queue, closed, mi, wpc, wjob, slots, output,
                   hist, reportVars>>

\* for j := range q / for k := range command: a value is received.
Receive(w) ==
    /\ Alive
    /\ w <= ncpu
    /\ wpc[w] = "recv"
    /\ queue # <<>>
    /\ wjob' = [wjob EXCEPT ![w] = Head(queue)]
    /\ queue' = Tail(queue)
    /\ wpc' = [wpc EXCEPT ![w] = "run"]
    /\ hist' = [hist EXCEPT ![Head(queue)].deq = @ + 1]
    /\ UNCHANGED <<impl, seed, dna, reports, ncpu, closed, mainpc, mi, slots, output, reportVars>>

\* jobs[k].result <- jobs[k].job(dna): the report is computed and sent; a
\* panic in the job ends the program.
RunJob(w) ==
    /\ Alive
    /\ w <= ncpu
    /\ wpc[w] = "run"
    /\ \E text \in reports[wjob[w]] :
          IF text.kind = "panic"
          THEN /\ mainpc' = "crashed"
               /\ UNCHANGED <<slots, wpc, hist>>
          ELSE /\ Len(slots[wjob[w]]) < SlotCap
               /\ slots' = [slots EXCEPT
                               ![wjob[w]] = Append(@, [job |-> wjob[w], text |-> text])]
               /\ wpc' = [wpc EXCEPT ![w] = "recv"]
               /\ hist' = [hist EXCEPT ![wjob[w]].wr = @ + 1]
               /\ mainpc' = mainpc
    /\ UNCHANGED <<impl, seed, dna, reports, ncpu, queue, closed, mi, wjob, output, reportVars>>

\* The range loop ends: the queue is closed and empty.
LeaveLoop(w) ==
    /\ Alive
    /\ w <= ncpu
    /\ wpc[w] = "recv"
    /\ queue = <<>>
    /\ closed
    /\ wpc' = [wpc EXCEPT ![w] = "done"]
    /\ UNCHANGED <<impl, seed, dna, reports, ncpu, queue, closed, mainpc, mi, wjob, slots, output,
                   hist, reportVars>>

MainStep == Enqueue \/ Close \/ Collect \/ Exit
WorkerStep(w) == Receive(w) \/ RunJob(w) \/ LeaveLoop(w)

Next ==
    \/ Enqueue
    \/ Close
    \/ Collect
    \/ Exit
    \/ \E w \in Workers : Receive(w)
    \/ \E w \in Workers : RunJob(w)
    \/ \E w \in Workers : LeaveLoop(w)

Spec == Init /\ [][Next]_vars

\* Go runs every goroutine that can run: main and each worker keep taking
\* the steps they are able to take.
FairSpec ==
    /\ Init
    /\ [][Next]_vars
    /\ WF_vars(MainStep)
    /\ \A w \in Workers : WF_vars(WorkerStep(w))
(***************************************************************************)
(* Properties of the scheduler.                                            *)
(***************************************************************************)
AllCollected == Len(output) = NumJobs
MainDone == mainpc \in {"exit", "exited"}
Running(k) == \E w \in 1..ncpu : wpc[w] = "run" /\ wjob[w] = k
Queued(k) == \E i \in 1..Len(queue) : queue[i] = k

\* C1: whatever the pool size and the order in which the workers finish, the
\* i-th block the collector emits is the report of the i-th declared job,
\* and when main is done one block per job has been emitted.
C1_OutputInDeclarationOrder ==
    /\ Len(output) <= NumJobs
    /\ \A i \in 1..Len(output) :
          /\ output[i].job = i - 1
          /\ \E iter \in JobIters(i - 1) :
                output[i].text = JobReport(impl, dna, i - 1, iter)
    /\ MainDone => AllCollected

\* The last declared job has finished and waits in its slot while the
\* collector has emitted the first block only.
C1_Witness ==
    /\ ncpu > 1
    /\ Len(output) = 1
    /\ slots[NumJobs - 1] # <<>>
    /\ slots[1] = <<>>

JobState(k) ==
    IF hist[k].wr > 0 THEN "Completed"
    ELSE IF Running(k) THEN "Running"
    ELSE IF Queued(k) THEN "Queued"
    ELSE "Declared"

StateRank(st) ==
    CASE st = "Declared" -> 0
      [] st = "Queued" -> 1
      [] st = "Running" -> 2
      [] st = "Completed" -> 3

JobAdvance(k) ==
    \/ JobState(k)' = JobState(k)
    \/ StateRank(JobState(k)') = StateRank(JobState(k)) + 1

ProducerNeverBlocks == mainpc = "enqueue" => Len(queue) < QueueCap
WriterNeverBlocks ==
    \A w \in 1..ncpu : wpc[w] = "run" => Len(slots[wjob[w]]) < SlotCap
NoDeadlock == mainpc # "exited" => ENABLED Next

\* C8: with main and every worker weakly fair, for every pool size, each job
\* moves Declared -> Queued -> Running -> Completed one state at a time and
\* reaches Completed, the collector reads every slot, the producer is never
\* blocked on the queue, no worker is blocked writing a slot, and no state
\* before the exit of the program is a deadlock.
C8_EveryJobCompletes ==
    /\ [][\A k \in JobIds : JobAdvance(k)]_vars
    /\ [](ProducerNeverBlocks /\ WriterNeverBlocks /\ NoDeadlock)
    /\ \A k \in JobIds : <>(JobState(k) = "Completed")
    /\ <>(AllCollected /\ \A k \in JobIds : hist[k].rd = 1)

\* Two jobs are running at once while others are queued and one is done.
C8_Witness ==
    /\ \E j, k \in JobIds : j # k /\ Running(j) /\ Running(k)
    /\ \E k \in JobIds : JobState(k) = "Queued"
    /\ \E k \in JobIds : JobState(k) = "Completed"

\* C9: each job index is enqueued once, received by one worker, its slot is
\* written once and read once, in that order: no slot is read before it is
\* written, and when main is done each of these has happened exactly once.
C9_EachIndexOnce ==
    /\ \A k \in JobIds :
          /\ hist[k].enq <= 1
          /\ hist[k].deq <= hist[k].enq
          /\ hist[k].wr <= hist[k].deq
          /\ hist[k].rd <= hist[k].wr
          /\ Cardinality({w \in 1..ncpu : wpc[w] = "run" /\ wjob[w] = k}) <= 1
          /\ Cardinality({i \in 1..Len(queue) : queue[i] = k}) <= 1
          /\ Len(slots[k]) = hist[k].wr - hist[k].rd
    /\ MainDone =>
          \A k \in JobIds : hist[k] = [enq |-> 1, deq |-> 1, wr |-> 1, rd |-> 1]

\* The program has exited after two workers shared the jobs.
C9_Witness ==
    /\ mainpc = "exited"
    /\ ncpu > 1
    /\ \A k \in JobIds : hist[k].rd = 1

AllEnqueued == \A k \in JobIds : hist[k].enq = 1

\* C10 as stated: the queue is closed as soon as every index is enqueued,
\* before the results are collected.
C10_ClosedBeforeCollection == mainpc = "collect" => closed

\* C10, amended: the queue is closed only after every index is enqueued: in
\* part_000 before the collection starts, in knucleotide.go after the last
\* result is collected.  It is eventually closed; from then on a worker
\* waiting on the empty queue can leave its loop, and every worker
\* eventually has left its loop or has been ended by the exit of the program.
C10_ClosedAfterEnqueue ==
    /\ [](closed => AllEnqueued)
    /\ [](impl = "orig" /\ mainpc = "collect" => closed)
    /\ [](impl = "knucleotide" /\ closed => AllCollected)
    /\ <>closed
    /\ [](\A w \in Workers :
            (w <= ncpu /\ closed /\ queue = <<>> /\ wpc[w] = "recv" /\ Alive)
                => ENABLED LeaveLoop(w))
    /\ \A w \in Workers : <>(w > ncpu \/ wpc[w] = "done" \/ mainpc = "exited")

\* knucleotide.go: the queue is closed after the collection and a worker has
\* left its loop before the program exits.
C10_Witness ==
    /\ impl = "knucleotide"
    /\ closed
    /\ AllCollected
    /\ \E w \in 1..ncpu : wpc[w] = "done"
====
